---- MODULE Spec2Model ----
(***************************************************************************)
(* Model of the explicit finite-difference transport engines               *)
(* (backend/app/physics/advection_1d.py, advection_2d.py) and of the two   *)
(* route handlers that call them (backend/app/api/routes.py).              *)
(*                                                                         *)
(* Numbers.  The engines compute on IEEE doubles.  The model computes the  *)
(* parameters, the grid and the time step on exact rationals               *)
(* <<numerator, denominator>> in lowest terms with a positive denominator. *)
(* A field value is a cell: a sequence c of CellLimbs rationals with the   *)
(* value                                                                   *)
(*     c[1] + c[2] / LimbBase + c[3] / LimbBase^2 + ...                    *)
(* The Gaussian initial condition, the one transcendental function of the  *)
(* engines, gives cells of integer limbs 0 <= c[k] < LimbBase with 17 to   *)
(* 20 significant digits.  The steppers are linear in the field: they add  *)
(* cells and scale them by rationals limb by limb, exactly, so an          *)
(* identity between field values that holds in exact arithmetic holds limb *)
(* by limb.  Cells with equal limbs have equal values.                     *)
(***************************************************************************)
EXTENDS Integers, Sequences, FiniteSets, TLC

(***************************************************************************)
(* Bounds of the model.                                                    *)
(***************************************************************************)
\* number of requests handled concurrently
NumReqs == 2
\* largest num_steps a request carries into an engine
MaxSteps == 3
\* largest cell value of a hand-built field of the stepper specification
MaxCell == 1
\* largest cell count of a hand-built field of the stepper specification
MaxCells == 3
\* largest nx and ny of the time-step specification
MaxGrid == 4
\* largest reading of the clock of the cache specification, in seconds
MaxClock == 455

(***************************************************************************)
(* Program constants.                                                      *)
(***************************************************************************)
\* routes.py: 1-D nx range, num_steps range
Nx1DMin == 10
Nx1DMax == 500
Steps1DMin == 1
Steps1DMax == 500
\* routes.py: 2-D nx, ny range, num_steps range
N2DMin == 5
N2DMax == 80
Steps2DMin == 1
Steps2DMax == 200
\* settings.cache_ttl_seconds
CacheTtl == 300

(***************************************************************************)
(* Exact rational arithmetic.                                              *)
(***************************************************************************)
Abs(i) == IF i < 0 THEN -i ELSE i

RECURSIVE GCD(_, _)
GCD(a, b) == IF b = 0 THEN a ELSE GCD(b, a % b)

\* p/q in lowest terms with a positive denominator  (q # 0)
Norm(p, q) ==
    LET g == GCD(Abs(p), Abs(q))
        s == IF q < 0 THEN -1 ELSE 1
    IN  <<s * (p \div g), s * (q \div g)>>

Rat(i) == <<i, 1>>
Zero == <<0, 1>>
One == <<1, 1>>

RNeg(a) == <<-a[1], a[2]>>
RAbs(a) == <<Abs(a[1]), a[2]>>

RAdd(a, b) ==
    LET g == GCD(a[2], b[2])
        l == (a[2] \div g) * b[2]
    IN  IF a[1] = 0 THEN b
        ELSE IF b[1] = 0 THEN a
        ELSE Norm(a[1] * (l \div a[2]) + b[1] * (l \div b[2]), l)

RSub(a, b) == RAdd(a, RNeg(b))

\* cross-reduced before multiplying, so the products stay small
RMul(a, b) ==
    LET g1 == GCD(Abs(a[1]), b[2])
        g2 == GCD(Abs(b[1]), a[2])
    IN  IF a[1] = 0 \/ b[1] = 0 THEN Zero
        ELSE <<(a[1] \div g1) * (b[1] \div g2), (a[2] \div g2) * (b[2] \div g1)>>

\* b # 0
RDiv(a, b) == RMul(a, Norm(b[2], b[1]))

RLeq(a, b) == a[1] * b[2] <= b[1] * a[2]
RLess(a, b) == a[1] * b[2] < b[1] * a[2]
RMin(a, b) == IF RLeq(a, b) THEN a ELSE b
RMax(a, b) == IF RLeq(a, b) THEN b ELSE a

(***************************************************************************)
(* np.exp of a non-positive argument.  The engines hold a field value in   *)
(* an IEEE double: 53 significant bits, positive down to 4.9e-324.  The    *)
(* model holds it in decimal limbs.  A long number is a sequence of        *)
(* WorkLimbs + 1 integers a with the value                                 *)
(*     a[1] + a[2] / LimbBase + a[3] / LimbBase^2 + ...                    *)
(* and 0 <= a[k] < LimbBase for k > 1.  exp(-t) is computed on long        *)
(* numbers: t is halved until it is below HalvingLimit / LimbBase, the     *)
(* Taylor series is summed to TaylorTerms terms, and the sum is squared    *)
(* once for every halving.  The result is rounded to SigLimbs limbs from   *)
(* its leading non-zero limb, 17 to 20 significant decimal digits, where   *)
(* a double has 15 to 17.  The engines give np.exp arguments from 0 to     *)
(* 59.2 (values from 1 down to 1.9e-26); in this range the result is       *)
(* positive, decreasing in t and within 1.2e-16 of exp(-t), relatively.    *)
(* The model takes the argument as an exact rational, the engines round    *)
(* it to a double first, which moves the value by up to 1e-14 relatively.  *)
(***************************************************************************)
\* the base of a limb
LimbBase == 10000
\* fraction limbs of a long number
WorkLimbs == 13
\* limbs of a product computed beyond the ones kept
GuardLimbs == 2
\* limbs kept of a value, from its leading non-zero limb
SigLimbs == 5
\* limbs of a field value: one integer limb and CellLimbs - 1 fraction limbs
CellLimbs == 12
\* the series is summed on arguments below HalvingLimit / LimbBase
HalvingLimit == 16
\* terms of the series: HalvingLimit^k / (LimbBase^k * k!) is below
\* LimbBase^-WorkLimbs from k = 15 on
TaylorTerms == 16

BZero(len) == [k \in 1..len |-> 0]
BOne(len) == [k \in 1..len |-> IF k = 1 THEN 1 ELSE 0]

\* carries taken from the last limb to the first
RECURSIVE Carried(_, _, _, _)
Carried(s, k, carry, acc) ==
    IF k = 1 THEN <<s[1] + carry>> \o acc
    ELSE LET v == s[k] + carry
         IN  Carried(s, k - 1, v \div LimbBase, <<v % LimbBase>> \o acc)

BNorm(s) == Carried(s, Len(s), 0, <<>>)

BAdd(a, b) == BNorm([k \in 1..Len(a) |-> a[k] + b[k]])

\* a - b for a >= b: \div rounds down and % is never negative, so a
\* negative difference borrows from the limb before it
BSub(a, b) == BNorm([k \in 1..Len(a) |-> a[k] - b[k]])

\* the sum of the products a[i] * b[k - i + 1] from index i on
RECURSIVE ColSum(_, _, _, _)
ColSum(a, b, k, i) ==
    IF i > k \/ i > Len(a) THEN 0
    ELSE (IF k - i + 1 <= Len(b) THEN a[i] * b[k - i + 1] ELSE 0)
         + ColSum(a, b, k, i + 1)

\* a * b for a, b below 2, cut to the length of a
BMul(a, b) ==
    IF a = BZero(Len(a)) \/ b = BZero(Len(b)) THEN BZero(Len(a))
    ELSE SubSeq(BNorm([k \in 1..(Len(a) + GuardLimbs) |->
                          ColSum(a, b, k, 1)]),
                1, Len(a))

\* the limbs k.. of a / d for an integer 0 < d < 2^31 / LimbBase
RECURSIVE DivFrom(_, _, _, _)
DivFrom(a, d, k, rem) ==
    IF k > Len(a) THEN <<>>
    ELSE LET v == rem * LimbBase + a[k]
         IN  <<v \div d>> \o DivFrom(a, d, k + 1, v % d)

BDivSmall(a, d) == DivFrom(a, d, 1, 0)

\* the next count limbs of rem / q for 0 <= rem < q < 2^31 / 10, digit by digit
Digit4(rem, q) ==
    LET d1 == (rem * 10) \div q
        r1 == (rem * 10) % q
        d2 == (r1 * 10) \div q
        r2 == (r1 * 10) % q
        d3 == (r2 * 10) \div q
        r3 == (r2 * 10) % q
        d4 == (r3 * 10) \div q
        r4 == (r3 * 10) % q
    IN  <<d1 * 1000 + d2 * 100 + d3 * 10 + d4, r4>>

RECURSIVE FracLimbs(_, _, _)
FracLimbs(rem, q, count) ==
    IF count = 0 THEN <<>>
    ELSE LET d == Digit4(rem, q)
         IN  <<d[1]>> \o FracLimbs(d[2], q, count - 1)

\* the rational t >= 0 as a long number, cut after WorkLimbs fraction limbs
BFromRat(t) == <<t[1] \div t[2]>> \o FracLimbs(t[1] % t[2], t[2], WorkLimbs)

\* <<x / 2^m, m>> for the least m that brings x below the halving limit
RECURSIVE Reduced(_, _)
Reduced(x, m) ==
    IF x[1] = 0 /\ x[2] < HalvingLimit THEN <<x, m>>
    ELSE Reduced(BDivSmall(x, 2), m + 1)

\* the series 1 - x + x^2/2! - ... as <<sum of the even terms, sum of the odd
\* terms>>; s = <<x^k / k!, even terms before it, odd terms before it>>
RECURSIVE TaylorSum(_, _, _)
TaylorSum(x, k, s) ==
    IF s[1] = BZero(Len(x)) \/ k > TaylorTerms THEN <<s[2], s[3]>>
    ELSE TaylorSum(x, k + 1,
                   <<BDivSmall(BMul(s[1], x), k + 1),
                     IF k % 2 = 0 THEN BAdd(s[2], s[1]) ELSE s[2],
                     IF k % 2 = 1 THEN BAdd(s[3], s[1]) ELSE s[3]>>)

\* exp(-x) for a long number 0 <= x < HalvingLimit / LimbBase
ExpTaylor(x) ==
    LET sums == TaylorSum(x, 1, <<x, BOne(Len(x)), BZero(Len(x))>>)
    IN  BSub(sums[1], sums[2])

\* a^(2^m)
RECURSIVE Squared(_, _)
Squared(a, m) == IF m = 0 THEN a ELSE Squared(BMul(a, a), m - 1)

\* exp(-t) for a rational t >= 0, as a long number
ExpLong(t) ==
    LET red == Reduced(BFromRat(t), 0)
    IN  Squared(ExpTaylor(red[1]), red[2])

\* the long number a rounded to SigLimbs limbs from its leading non-zero
\* limb and cut to CellLimbs limbs
Rounded(a) ==
    IF a = BZero(Len(a)) THEN BZero(CellLimbs)
    ELSE LET lead == CHOOSE k \in 1..Len(a) :
                        a[k] # 0 /\ \A j \in 1..(k - 1) : a[j] = 0
             keep == IF lead + SigLimbs - 1 < CellLimbs
                     THEN lead + SigLimbs - 1 ELSE CellLimbs
             up == IF a[keep + 1] * 2 >= LimbBase THEN 1 ELSE 0
         IN  BNorm([k \in 1..CellLimbs |->
                       IF k < keep THEN a[k]
                       ELSE IF k = keep THEN a[k] + up ELSE 0])

(***************************************************************************)
(* Cells.                                                                  *)
(***************************************************************************)
\* the cell of the rational q
Cell(q) == [k \in 1..CellLimbs |-> IF k = 1 THEN q ELSE Zero]

CZero == Cell(Zero)

CAdd(a, b) == [k \in 1..CellLimbs |-> RAdd(a[k], b[k])]
CSub(a, b) == [k \in 1..CellLimbs |-> RSub(a[k], b[k])]

\* the cell c times the rational q
CScale(q, c) == [k \in 1..CellLimbs |-> RMul(q, c[k])]

\* exp(-t) for a rational t >= 0, as a cell
ExpCell(t) ==
    LET r == Rounded(ExpLong(t))
    IN  [k \in 1..CellLimbs |-> Rat(r[k])]


(***************************************************************************)
(* Python integer modulo: the result has the sign of the divisor m # 0.    *)
(***************************************************************************)
\* the sampling test taken one step late
PyModLate(k, m) == IF m > 0 THEN (k - 1) % m ELSE -((1 - k) % (-m))

PyMod(k, m) == IF m > 0 THEN k % m ELSE -((-k) % (-m))

None == "None"

(***************************************************************************)
(* Request parameters, as the keyword arguments of the engines.            *)
(***************************************************************************)
Args1D(nx, c, num_steps, output_interval) ==
    [kind |-> "1d", nx |-> nx, c |-> c,
     num_steps |-> num_steps, output_interval |-> output_interval]

Args2D(nx, ny, cx, cy, diffusion, num_steps, output_interval) ==
    [kind |-> "2d", nx |-> nx, ny |-> ny, cx |-> cx, cy |-> cy,
     diffusion |-> diffusion,
     num_steps |-> num_steps, output_interval |-> output_interval]

(***************************************************************************)
(* Grid builder.  dx = 1.0 / (nx - 1); np.linspace(0, 1, nx).              *)
(***************************************************************************)
\* nx # 1
Spacing(nx) == Norm(1, nx - 1)

\* nx >= 0; the grid of one point is the point 0
Linspace(nx) == [i \in 1..nx |-> IF nx = 1 THEN Zero ELSE Norm(i - 1, nx - 1)]

(***************************************************************************)
(* What the statements before the stepping loop raise: the division        *)
(* 1.0 / (n - 1) raises ZeroDivisionError for a cell count of 1, and       *)
(* np.linspace raises ValueError for a negative cell count.  A cell count  *)
(* of 0 raises nothing there: the grid and the field are empty.            *)
(***************************************************************************)
EntryError(a) ==
    IF a.kind = "1d"
    THEN IF a.nx = 1 THEN "ZeroDivisionError"
         ELSE IF a.nx < 0 THEN "ValueError"
         ELSE None
    ELSE IF a.nx = 1 \/ a.ny = 1 THEN "ZeroDivisionError"
         ELSE IF a.nx < 0 \/ a.ny < 0 THEN "ValueError"
         ELSE None

(***************************************************************************)
(* Stability / timestep selector.                                          *)
(***************************************************************************)
\* 1-D with half the step: dt = dx / (2 * abs(c)) if c != 0 else dx
Dt1DHalf(c, dx) == IF c # Zero THEN RDiv(dx, RMul(Rat(2), RAbs(c))) ELSE dx

\* 1-D: dt = dx / abs(c) if c != 0 else dx
Dt1D(c, dx) == IF c # Zero THEN RDiv(dx, RAbs(c)) ELSE dx

\* 1e-6, the guard of the advective limit
EpsAdv == <<1, 1000000>>
\* the ceiling 0.002
DtCeiling == <<1, 500>>

DtAdv(cx, cy, dx, dy) ==
    RMin(RDiv(dx, RMax(RAbs(cx), EpsAdv)), RDiv(dy, RMax(RAbs(cy), EpsAdv)))

\* dt = min(dt_adv, 0.002): the diffusive limit left out
Dt2DNoDiffusion(cx, cy, diffusion, dx, dy) ==
    RMin(DtAdv(cx, cy, dx, dy), DtCeiling)

(***************************************************************************)
(* dt = min(dt_adv, dt_diff, 0.002) with                                   *)
(* dt_diff = 0.25 * min(dx**2, dy**2) / max(diffusion, 1e-10).             *)
(* Every rational the model can hold with a positive numerator exceeds     *)
(* 1e-10, so max(diffusion, 1e-10) is diffusion when diffusion > 0 and     *)
(* 1e-10 otherwise.  In the second case dt_diff = q * 10^5 * 10^5 with     *)
(* q = 0.25 * min(dx**2, dy**2); the minimum is taken without forming a    *)
(* product that is larger than the other two candidates.                   *)
(***************************************************************************)
Dt2D(cx, cy, diffusion, dx, dy) ==
    LET q == RMul(<<1, 4>>, RMin(RMul(dx, dx), RMul(dy, dy)))
        cand == RMin(DtAdv(cx, cy, dx, dy), DtCeiling)
        q5 == RMul(q, Rat(100000))
    IN  IF diffusion[1] > 0 THEN RMin(cand, RDiv(q, diffusion))
        ELSE IF RLeq(cand, q) THEN cand
        ELSE IF RLeq(cand, q5) THEN cand
        ELSE RMin(cand, RMul(q5, Rat(100000)))

(***************************************************************************)
(* Parameters the requests are drawn from.                                 *)
(***************************************************************************)
Speeds1D == {Rat(-1), Zero, One, Rat(2)}
\* <<cx, cy, diffusion>>; with these values and grid spacings that are
\* powers of 1/2 the Courant and diffusion numbers are dyadic
Flows2D == {<<Zero, Zero, Zero>>, <<Rat(125), Zero, Zero>>,
            <<Rat(125), Rat(-125), Zero>>, <<Zero, Zero, <<125, 16>>>>,
            <<Rat(-125), Rat(125), <<125, 16>>>>}
Intervals == {-1, 0, 1, 2}
StepCounts == 0..MaxSteps
\* cell counts given to the engines directly
DirectCells == {-1, 0, 1, 2, 3}
\* cell counts and step counts given to the routes
RouteCells1D == {Nx1DMin - 1, Nx1DMin, Nx1DMin + 1, Nx1DMax + 1}
RouteSteps1D == StepCounts \cup {Steps1DMax + 1}
RouteCells2D == {N2DMin - 1, N2DMin, N2DMin + 4, N2DMax + 1}
RouteSteps2D == StepCounts \cup {Steps2DMax + 1}

(***************************************************************************)
(* Initial condition generator.                                            *)
(***************************************************************************)
RSq(a) == RMul(a, a)

\* 40 * (x - 0.25) ** 2
Arg1D(x) == RMul(Rat(40), RSq(RSub(x, <<1, 4>>)))

\* 80 * ((X - 0.3) ** 2 + (Y - 0.5) ** 2)
Arg2D(x, y) ==
    RMul(Rat(80), RAdd(RSq(RSub(x, <<3, 10>>)), RSq(RSub(y, <<1, 2>>))))

\* the cell counts of the grids the engines build in the specifications
Sizes1D == {nx \in DirectCells \cup RouteCells1D : 2 <= nx /\ nx <= Nx1DMax}
Sizes2D ==
    {nx \in DirectCells \cup RouteCells2D \cup (2..MaxGrid) :
        2 <= nx /\ nx <= N2DMax}

\* the arguments np.exp is given on these grids, and its values there
Tabulated ==
    UNION {{Arg1D(Linspace(nx)[i]) : i \in 1..nx} : nx \in Sizes1D}
    \cup UNION {{Arg2D(Linspace(nx)[j], Linspace(ny)[r]) :
                    j \in 1..nx, r \in 1..ny} : nx \in Sizes2D, ny \in Sizes2D}

ExpTable == [t \in Tabulated |-> ExpCell(t)]

\* np.exp(-t) for a rational t >= 0: the tabulated value where there is one
ExpNeg(t) == IF t \in Tabulated THEN ExpTable[t] ELSE ExpCell(t)

\* u = np.exp(-40 * (x - 0.25) ** 2)
Gauss1D(nx) ==
    LET x == Linspace(nx)
    IN  [i \in 1..nx |-> ExpNeg(Arg1D(x[i]))]

\* u = np.exp(-80 * ((X - 0.3) ** 2 + (Y - 0.5) ** 2)); u[row][column]
Gauss2D(nx, ny) ==
    LET x == Linspace(nx)
        y == Linspace(ny)
    IN  [r \in 1..ny |-> [j \in 1..nx |-> ExpNeg(Arg2D(x[j], y[r]))]]

(***************************************************************************)
(* Explicit stepper, 1-D: first-order upwind with periodic wrap.           *)
(***************************************************************************)
\* c * dt / dx
Courant(c, dt, dx) == RDiv(RMul(c, dt), dx)

\* the stepper without its two periodic lines: the upstream end keeps its value
Upwind1DNoWrap(u, c, dt, dx) ==
    LET nx == Len(u)
        k == Courant(c, dt, dx)
    IN  IF RLeq(Zero, c)
        THEN [i \in 1..nx |->
                IF i = 1 THEN u[1]
                ELSE CSub(u[i], CScale(k, CSub(u[i], u[i - 1])))]
        ELSE [i \in 1..nx |->
                IF i = nx THEN u[nx]
                ELSE CSub(u[i], CScale(k, CSub(u[i + 1], u[i])))]

\* one pass of the loop body on a field of at least one cell
Upwind1D(u, c, dt, dx) ==
    LET nx == Len(u)
        k == Courant(c, dt, dx)
    IN  IF RLeq(Zero, c)
        THEN [i \in 1..nx |->
                IF i = 1 THEN CSub(u[1], CScale(k, CSub(u[1], u[nx])))
                ELSE CSub(u[i], CScale(k, CSub(u[i], u[i - 1])))]
        ELSE [i \in 1..nx |->
                IF i = nx THEN CSub(u[nx], CScale(k, CSub(u[1], u[nx])))
                ELSE CSub(u[i], CScale(k, CSub(u[i + 1], u[i])))]

(***************************************************************************)
(* Explicit stepper, 2-D.  Every term is computed from u, the field before *)
(* the step, and applied to u_new, which starts as a copy of u.            *)
(***************************************************************************)
\* the x-advection lines with the factor cx left out of the Courant number
AdvectXNoSpeed(u, cx, dt, dx, r, j) ==
    LET nx == Len(u[r])
        k == RDiv(dt, dx)
    IN  IF j = 1 THEN CScale(k, CSub(u[r][1], u[r][nx]))
        ELSE CScale(k, CSub(u[r][j], u[r][j - 1]))

\* the x-advection lines without the periodic column: the upstream column
\* keeps its value
AdvectXNoWrap(u, cx, dt, dx, r, j) ==
    LET nx == Len(u[r])
        k == Courant(cx, dt, dx)
    IN  IF RLeq(Zero, cx)
        THEN IF j = 1 THEN CZero
             ELSE CScale(k, CSub(u[r][j], u[r][j - 1]))
        ELSE IF j = nx THEN CZero
             ELSE CScale(k, CSub(u[r][j + 1], u[r][j]))

\* the amount the x-advection lines subtract from u_new[r][j]
AdvectX(u, cx, dt, dx, r, j) ==
    LET nx == Len(u[r])
        k == Courant(cx, dt, dx)
    IN  IF RLeq(Zero, cx)
        THEN IF j = 1 THEN CScale(k, CSub(u[r][1], u[r][nx]))
             ELSE CScale(k, CSub(u[r][j], u[r][j - 1]))
        ELSE IF j = nx THEN CScale(k, CSub(u[r][1], u[r][nx]))
             ELSE CScale(k, CSub(u[r][j + 1], u[r][j]))

\* the amount the y-advection lines subtract from u_new[r][j]
AdvectY(u, cy, dt, dy, r, j) ==
    LET ny == Len(u)
        k == Courant(cy, dt, dy)
    IN  IF RLeq(Zero, cy)
        THEN IF r = 1 THEN CScale(k, CSub(u[1][j], u[ny][j]))
             ELSE CScale(k, CSub(u[r][j], u[r - 1][j]))
        ELSE IF r = ny THEN CScale(k, CSub(u[1][j], u[ny][j]))
             ELSE CScale(k, CSub(u[r + 1][j], u[r][j]))

\* the slice [1:-1, 1:-1]
Interior(u, r, j) == 1 < r /\ r < Len(u) /\ 1 < j /\ j < Len(u[r])

\* the diffusion line with periodic neighbours, applied to every cell
DiffusePeriodic(u, diffusion, dt, dx, dy, r, j) ==
    LET ny == Len(u)
        nx == Len(u[r])
        up == IF r = ny THEN 1 ELSE r + 1
        down == IF r = 1 THEN ny ELSE r - 1
        right == IF j = nx THEN 1 ELSE j + 1
        left == IF j = 1 THEN nx ELSE j - 1
        lap == CSub(CAdd(CAdd(u[up][j], u[down][j]),
                         CAdd(u[r][right], u[r][left])),
                    CScale(Rat(4), u[r][j]))
    IN  CScale(RDiv(RMul(diffusion, dt), RMul(dx, dy)), lap)

\* the amount the diffusion line adds to u_new[r][j]
Diffuse(u, diffusion, dt, dx, dy, r, j) ==
    IF Interior(u, r, j)
    THEN LET lap == CSub(CAdd(CAdd(u[r + 1][j], u[r - 1][j]),
                              CAdd(u[r][j + 1], u[r][j - 1])),
                         CScale(Rat(4), u[r][j]))
         IN  CScale(RDiv(RMul(diffusion, dt), RMul(dx, dy)), lap)
    ELSE CZero

\* the x-advection lines applied on their own to a field
PassX(u, cx, dt, dx) ==
    [r \in 1..Len(u) |-> [j \in 1..Len(u[r]) |->
        CSub(u[r][j], AdvectX(u, cx, dt, dx, r, j))]]

\* the y-advection lines applied on their own to a field
PassY(u, cy, dt, dy) ==
    [r \in 1..Len(u) |-> [j \in 1..Len(u[r]) |->
        CSub(u[r][j], AdvectY(u, cy, dt, dy, r, j))]]

\* the diffusion line applied on its own to a field
PassD(u, diffusion, dt, dx, dy) ==
    [r \in 1..Len(u) |-> [j \in 1..Len(u[r]) |->
        CAdd(u[r][j], Diffuse(u, diffusion, dt, dx, dy, r, j))]]

\* the loop body as a sequential composition: each pass reads the field the
\* pass before it produced (the right-hand sides read u_new in place of u)
Step2DSequential(u, cx, cy, diffusion, dt, dx, dy) ==
    PassD(PassY(PassX(u, cx, dt, dx), cy, dt, dy), diffusion, dt, dx, dy)

\* one pass of the loop body on a field of at least one row and one column
Step2D(u, cx, cy, diffusion, dt, dx, dy) ==
    [r \in 1..Len(u) |-> [j \in 1..Len(u[r]) |->
        CAdd(CSub(CSub(u[r][j], AdvectX(u, cx, dt, dx, r, j)),
                  AdvectY(u, cy, dt, dy, r, j)),
             Diffuse(u, diffusion, dt, dx, dy, r, j))]]

\* u[0].tolist() in place of u.flatten().tolist(): the first row only
FlattenFirstRow(u) == IF u = <<>> THEN <<>> ELSE Head(u)

\* u.flatten(): row-major
RECURSIVE Flatten(_)
Flatten(u) == IF u = <<>> THEN <<>> ELSE Head(u) \o Flatten(Tail(u))

(***************************************************************************)
(* Snapshot sampler and result assembler.                                  *)
(***************************************************************************)
\* {"step": n, "u": u.tolist()}  (1-D)  or  u.flatten().tolist()  (2-D)
Snapshot(a, step, field) ==
    [step |-> step, u |-> IF a.kind = "1d" THEN field ELSE Flatten(field)]

\* the series with every stored field being the working array itself, seen
\* after the step has written to it
KeptAliased(series, a, field) ==
    [i \in 1..Len(series) |->
        [step |-> series[i].step, u |-> Snapshot(a, 0, field).u]]

\* the snapshots stored so far, after a pass of the loop body: tolist() made
\* each of them a list of its own and the pass writes to a fresh u.copy(),
\* so none of them changes
Kept(series, a, field) == series

\* the dict an engine returns
Result(a, dtv, series) ==
    IF a.kind = "1d"
    THEN [x |-> Linspace(a.nx), c |-> a.c, dt |-> dtv, dx |-> Spacing(a.nx),
          num_steps |-> a.num_steps, series |-> series]
    ELSE [nx |-> a.nx, ny |-> a.ny, cx |-> a.cx, cy |-> a.cy,
          diffusion |-> a.diffusion, num_steps |-> a.num_steps,
          series |-> series]

\* the statements of an engine before its loop, on arguments that raise nothing
Dt(a) ==
    IF a.kind = "1d" THEN Dt1D(a.c, Spacing(a.nx))
    ELSE Dt2D(a.cx, a.cy, a.diffusion, Spacing(a.nx), Spacing(a.ny))

InitialField(a) ==
    IF a.kind = "1d" THEN Gauss1D(a.nx) ELSE Gauss2D(a.nx, a.ny)

\* the field has no cell: the periodic lines index an empty axis
NoCell(a) == IF a.kind = "1d" THEN a.nx = 0 ELSE a.nx = 0 \/ a.ny = 0

\* the loop body up to "u = u_new"
Advance(a, dtv, field) ==
    IF a.kind = "1d" THEN Upwind1D(field, a.c, dtv, Spacing(a.nx))
    ELSE Step2D(field, a.cx, a.cy, a.diffusion, dtv,
                Spacing(a.nx), Spacing(a.ny))

(***************************************************************************)
(* State.  Every request r has its own handler activation:                 *)
(*   pc[r]        "idle", "loop" (inside the engine's for loop), "done"    *)
(*   via[r]       who called the engine: "route", "direct" or None         *)
(*   args[r]      the request's parameters                                 *)
(*   invoked[r]   the engine has been called for r                         *)
(*   dt, u, n, results   the engine's local variables of r's call          *)
(*   outcome[r]   how the engine call ended: a Result or an exception      *)
(*   response[r]  the HTTP response of the route                          *)
(* The module-level cache nws_cache and its clock:                         *)
(*   store        TTLCache._store: key -> (value, expires)                 *)
(*   now          the reading of time.monotonic(), in seconds              *)
(*   last         the latest call on the cache and what it returned        *)
(*   lastSet[k]   history: the value and the time of the latest set of k   *)
(***************************************************************************)
VARIABLES pc, via, args, invoked, dt, u, n, results, outcome, response,
          store, now, last, lastSet

engineVars == <<pc, via, args, invoked, dt, u, n, results, outcome, response>>
cacheVars == <<store, now, last, lastSet>>
vars == <<engineVars, cacheVars>>

\* the keys (urls) and the values (response bodies) given to the cache
Keys == {"k1", "k2"}
Values == {"a", "b"}

\* nws_cache = TTLCache(): an empty store
CacheInit ==
    /\ store = [k \in {} |-> None]
    /\ now = 0
    /\ last = [op |-> "none", key |-> None, ret |-> None]
    /\ lastSet = [k \in Keys |-> [written |-> FALSE, value |-> None, at |-> 0]]

Reqs == 1..NumReqs

NoOutcome == [kind |-> "none"]
NoResponse == [status |-> 0, body |-> None]

\* HTTPException(status_code=400, ...)
BadRequest == [status |-> 400, body |-> None]

\* a handler that answers with what the engine had sampled when it raised
RouteOnErrorPartial(partial) == [status |-> 200, body |-> partial]

\* the route's "except Exception as e: raise HTTPException(status_code=500)";
\* partial is what the engine had sampled when it raised
RouteOnError(partial) == [status |-> 500, body |-> None]

\* the route's "return solve_...(...)"
RouteOnReturn(res) == [status |-> 200, body |-> res]

Init ==
    /\ pc = [r \in Reqs |-> "idle"]
    /\ via = [r \in Reqs |-> None]
    /\ args = [r \in Reqs |-> None]
    /\ invoked = [r \in Reqs |-> FALSE]
    /\ dt = [r \in Reqs |-> None]
    /\ u = [r \in Reqs |-> None]
    /\ n = [r \in Reqs |-> 0]
    /\ results = [r \in Reqs |-> <<>>]
    /\ outcome = [r \in Reqs |-> NoOutcome]
    /\ response = [r \in Reqs |-> NoResponse]
    /\ CacheInit

\* the engine call of r ends with exception exc
Raise(r, v, exc, partial) ==
    /\ pc' = [pc EXCEPT ![r] = "done"]
    /\ outcome' = [outcome EXCEPT ![r] = [kind |-> "error", exc |-> exc]]
    /\ response' = [response EXCEPT
                      ![r] = IF v = "route" THEN RouteOnError(partial) ELSE @]

\* an engine is called with arguments a and runs up to its loop
Enter(r, a, v) ==
    /\ UNCHANGED cacheVars
    /\ args' = [args EXCEPT ![r] = a]
    /\ via' = [via EXCEPT ![r] = v]
    /\ invoked' = [invoked EXCEPT ![r] = TRUE]
    /\ IF EntryError(a) # None
       THEN /\ Raise(r, v, EntryError(a), <<>>)
            /\ UNCHANGED <<dt, u, n, results>>
       ELSE /\ pc' = [pc EXCEPT ![r] = "loop"]
            /\ dt' = [dt EXCEPT ![r] = Dt(a)]
            /\ u' = [u EXCEPT ![r] = InitialField(a)]
            /\ n' = [n EXCEPT ![r] = 0]
            /\ results' = [results EXCEPT
                             ![r] = <<Snapshot(a, 0, InitialField(a))>>]
            /\ UNCHANGED <<outcome, response>>

\* the route answers 400 without calling the engine
Reject(r, a) ==
    /\ UNCHANGED cacheVars
    /\ args' = [args EXCEPT ![r] = a]
    /\ via' = [via EXCEPT ![r] = "route"]
    /\ pc' = [pc EXCEPT ![r] = "done"]
    /\ response' = [response EXCEPT ![r] = BadRequest]
    /\ UNCHANGED <<invoked, dt, u, n, results, outcome>>

\* the checks with the lower bound of nx taken strictly
Valid1DStrict(nx, num_steps) ==
    /\ ~(nx <= Nx1DMin \/ nx > Nx1DMax)
    /\ ~(num_steps < Steps1DMin \/ num_steps > Steps1DMax)

\* the parameter checks of physics_advection_1d
Valid1D(nx, num_steps) ==
    /\ ~(nx < Nx1DMin \/ nx > Nx1DMax)
    /\ ~(num_steps < Steps1DMin \/ num_steps > Steps1DMax)

\* the parameter checks of physics_advection_2d
Valid2D(nx, ny, num_steps) ==
    /\ ~(nx < N2DMin \/ nx > N2DMax \/ ny < N2DMin \/ ny > N2DMax)
    /\ ~(num_steps < Steps2DMin \/ num_steps > Steps2DMax)

\* GET /physics/advection-1d
physics_advection_1d(r, nx, c, num_steps, output_interval) ==
    /\ pc[r] = "idle"
    /\ IF Valid1D(nx, num_steps)
       THEN Enter(r, Args1D(nx, c, num_steps, output_interval), "route")
       ELSE Reject(r, Args1D(nx, c, num_steps, output_interval))

\* GET /physics/advection-2d
physics_advection_2d(r, nx, ny, cx, cy, diffusion, num_steps, output_interval) ==
    /\ pc[r] = "idle"
    /\ IF Valid2D(nx, ny, num_steps)
       THEN Enter(r, Args2D(nx, ny, cx, cy, diffusion, num_steps,
                            output_interval), "route")
       ELSE Reject(r, Args2D(nx, ny, cx, cy, diffusion, num_steps,
                             output_interval))

\* solve_1d_advection called by another caller than the route
solve_1d_advection(r, nx, c, num_steps, output_interval) ==
    /\ pc[r] = "idle"
    /\ Enter(r, Args1D(nx, c, num_steps, output_interval), "direct")

\* solve_2d_advection_diffusion called by another caller than the route
solve_2d_advection_diffusion(r, nx, ny, cx, cy, diffusion, num_steps, output_interval) ==
    /\ pc[r] = "idle"
    /\ Enter(r, Args2D(nx, ny, cx, cy, diffusion, num_steps, output_interval),
             "direct")

\* a module-level array shared by the runs on the same grid, in place of
\* the local u
FieldShared(r) ==
    LET same == {o \in Reqs : /\ pc[o] = "loop"
                              /\ args[o].kind = args[r].kind
                              /\ args[o].nx = args[r].nx
                              /\ (args[r].kind = "2d" => args[o].ny = args[r].ny)}
    IN  u[CHOOSE o \in same : \A q \in same : o <= q]

\* the field a pass of r's loop reads: the local u of r's call
Field(r) == u[r]

\* a module-level counter shared by the runs, in place of the loop variable
CounterShared(r) ==
    LET running == {o \in Reqs : pc[o] = "loop"}
    IN  n[CHOOSE o \in running : \A q \in running : o <= q]

\* the passes of r's loop made so far: the loop variable n of r's call
Counter(r) == n[r]

\* a final snapshot added when the last step was not sampled
SeriesWithFinal(r) ==
    IF results[r][Len(results[r])].step # n[r]
    THEN Append(results[r], Snapshot(args[r], n[r], u[r]))
    ELSE results[r]

\* "series": results
Series(r) == results[r]

\* one pass of "for n in range(1, num_steps + 1)"
Step(r) ==
    /\ pc[r] = "loop"
    /\ Counter(r) < args[r].num_steps
    /\ UNCHANGED <<args, via, invoked, dt>>
    /\ UNCHANGED cacheVars
    /\ IF NoCell(args[r])
       THEN /\ Raise(r, via[r], "IndexError", results[r])
            /\ n' = [n EXCEPT ![r] = @ + 1]
            /\ UNCHANGED <<u, results>>
       ELSE LET unew == Advance(args[r], dt[r], Field(r))
                step == Counter(r) + 1
            IN  /\ u' = [u EXCEPT ![r] = unew]
                /\ n' = [n EXCEPT ![r] = step]
                /\ IF args[r].output_interval = 0
                   THEN /\ Raise(r, via[r], "ZeroDivisionError", results[r])
                        /\ UNCHANGED results
                   ELSE /\ results' =
                             [results EXCEPT ![r] =
                                IF PyMod(step, args[r].output_interval) = 0
                                THEN Append(Kept(@, args[r], unew),
                                            Snapshot(args[r], step, unew))
                                ELSE Kept(@, args[r], unew)]
                        /\ UNCHANGED <<pc, outcome, response>>

\* the loop is exhausted: the engine returns its dict
Return(r) ==
    /\ pc[r] = "loop"
    /\ Counter(r) >= args[r].num_steps
    /\ pc' = [pc EXCEPT ![r] = "done"]
    /\ outcome' = [outcome EXCEPT
                     ![r] = [kind |-> "result",
                             value |-> Result(args[r], dt[r], Series(r))]]
    /\ response' = [response EXCEPT
                      ![r] = IF via[r] = "route"
                             THEN RouteOnReturn(Result(args[r], dt[r], Series(r)))
                             ELSE @]
    /\ UNCHANGED <<args, via, invoked, dt, u, n, results>>
    /\ UNCHANGED cacheVars

(***************************************************************************)
(* Spec: one caller; it sends a request to a route or calls an engine.     *)
(***************************************************************************)
Next ==
    \/ \E nx \in RouteCells1D, c \in Speeds1D, ns \in RouteSteps1D,
          oi \in Intervals :
          physics_advection_1d(1, nx, c, ns, oi)
    \/ \E nx \in RouteCells2D, ny \in RouteCells2D, f \in Flows2D,
          ns \in RouteSteps2D, oi \in Intervals :
          physics_advection_2d(1, nx, ny, f[1], f[2], f[3], ns, oi)
    \/ \E nx \in DirectCells, c \in Speeds1D, ns \in StepCounts,
          oi \in Intervals :
          solve_1d_advection(1, nx, c, ns, oi)
    \/ \E nx \in DirectCells, ny \in DirectCells, f \in Flows2D,
          ns \in StepCounts, oi \in Intervals :
          solve_2d_advection_diffusion(1, nx, ny, f[1], f[2], f[3], ns, oi)
    \/ Step(1)
    \/ Return(1)

Spec == Init /\ [][Next]_vars

(***************************************************************************)
(* SpecConc: NumReqs requests to the routes, handled concurrently.  The    *)
(* handlers are interleaved pass by pass, which is finer than any          *)
(* schedule of the server: an engine call has no suspension point.         *)
(***************************************************************************)
ConcSpeeds1D == {Rat(-1), One}
ConcIntervals == {0, 2}
\* <<cx, cy, diffusion>>
ConcFlows2D == {<<Rat(125), Rat(-125), <<125, 16>>>>}

NextConc ==
    \E r \in Reqs :
        \/ \E c \in ConcSpeeds1D, oi \in ConcIntervals :
              physics_advection_1d(r, Nx1DMin, c, MaxSteps, oi)
        \/ \E f \in ConcFlows2D :
              physics_advection_2d(r, N2DMin, N2DMin, f[1], f[2], f[3],
                                   MaxSteps, 1)
        \/ Step(r)
        \/ Return(r)

SpecConc == Init /\ [][NextConc]_vars

(***************************************************************************)
(* SpecStep: the 1-D loop started on a hand-built field in place of the    *)
(* Gaussian, sampled at every step.                                        *)
(***************************************************************************)
HandFields ==
    UNION {[1..nx -> {Cell(Rat(v)) : v \in 0..MaxCell}] : nx \in 2..MaxCells}

InitStep ==
    \E f \in HandFields, c \in Speeds1D :
        LET a == Args1D(Len(f), c, MaxSteps, 1)
        IN  /\ pc = [r \in Reqs |-> IF r = 1 THEN "loop" ELSE "idle"]
            /\ via = [r \in Reqs |-> IF r = 1 THEN "direct" ELSE None]
            /\ args = [r \in Reqs |-> IF r = 1 THEN a ELSE None]
            /\ invoked = [r \in Reqs |-> r = 1]
            /\ dt = [r \in Reqs |-> IF r = 1 THEN Dt(a) ELSE None]
            /\ u = [r \in Reqs |-> IF r = 1 THEN f ELSE None]
            /\ n = [r \in Reqs |-> 0]
            /\ results = [r \in Reqs |->
                            IF r = 1 THEN <<Snapshot(a, 0, f)>> ELSE <<>>]
            /\ outcome = [r \in Reqs |-> NoOutcome]
            /\ response = [r \in Reqs |-> NoResponse]
            /\ CacheInit

NextStep == Step(1) \/ Return(1)

SpecStep == InitStep /\ [][NextStep]_vars

(***************************************************************************)
(* SpecDt: the 2-D engine called on grids of 2..MaxGrid cells a side; no   *)
(* step is taken.  The speeds go from zero and below the 1e-6 guard up to  *)
(* 250, the diffusivities from zero to 1000; the largest diffusivity is    *)
(* paired with the speeds from 1/2 up, which keeps every product of the    *)
(* rational arithmetic within 32 bits.                                     *)
(***************************************************************************)
DtSpeeds == {<<1, 2>>, Rat(-1), Rat(125), Rat(-250)}
DtSlowSpeeds == {Zero, <<1, 2000000>>}
DtDiffusions == {Zero, <<1, 1000>>, <<1, 100>>, One, <<125, 16>>}
\* <<cx, cy, diffusion>>
DtFlows ==
    ((DtSpeeds \cup DtSlowSpeeds) \X (DtSpeeds \cup DtSlowSpeeds)
        \X DtDiffusions)
    \cup (DtSpeeds \X DtSpeeds \X {Rat(1000)})

NextDt ==
    \/ \E nx \in 2..MaxGrid, ny \in 2..MaxGrid, f \in DtFlows :
          solve_2d_advection_diffusion(1, nx, ny, f[1], f[2], f[3], 0, 1)
    \/ Return(1)

SpecDt == Init /\ [][NextDt]_vars

(***************************************************************************)
(* TTLCache.  A call reads the clock once; the clock moves between calls.  *)
(***************************************************************************)
\* the test of get taken with >= : an entry is dropped at its expiry time
ExpiredEarly(t, expires) == t >= expires

\* time.monotonic() > expires
Expired(t, expires) == t > expires

\* del self._store[key]
Without(d, key) == [k \in (DOMAIN d) \ {key} |-> d[k]]

\* self._store[key] = entry
With(d, key, entry) ==
    [k \in (DOMAIN d) \cup {key} |-> IF k = key THEN entry ELSE d[k]]

\* TTLCache.get(key)
get(key) ==
    /\ IF key \notin DOMAIN store
       THEN /\ last' = [op |-> "get", key |-> key, ret |-> None]
            /\ UNCHANGED store
       ELSE IF Expired(now, store[key].expires)
       THEN /\ store' = Without(store, key)
            /\ last' = [op |-> "get", key |-> key, ret |-> None]
       ELSE /\ last' = [op |-> "get", key |-> key, ret |-> store[key].value]
            /\ UNCHANGED store
    /\ UNCHANGED <<now, lastSet>>
    /\ UNCHANGED engineVars

\* TTLCache.set(key, value)
set(key, value) ==
    /\ store' = With(store, key, [value |-> value, expires |-> now + CacheTtl])
    /\ last' = [op |-> "set", key |-> key, ret |-> None]
    /\ lastSet' = [lastSet EXCEPT
                     ![key] = [written |-> TRUE, value |-> value, at |-> now]]
    /\ UNCHANGED now
    /\ UNCHANGED engineVars

\* the clock moves on by d seconds between two calls
Tick(d) ==
    /\ now + d <= MaxClock
    /\ now' = now + d
    /\ last' = [op |-> "none", key |-> None, ret |-> None]
    /\ UNCHANGED <<store, lastSet>>
    /\ UNCHANGED engineVars

\* half the TTL and one second more: two ticks bring the clock to an entry's
\* expiry time or one second past it
Ticks == {CacheTtl \div 2, CacheTtl \div 2 + 1}

NextCache ==
    \/ \E key \in Keys : get(key)
    \/ \E key \in Keys, value \in Values : set(key, value)
    \/ \E d \in Ticks : Tick(d)

SpecCache == Init /\ [][NextCache]_vars

(***************************************************************************)
(* An engine call run alone, from its first statement to its return or     *)
(* its exception.                                                          *)
(***************************************************************************)
RECURSIVE LoopAlone(_, _, _, _, _)
LoopAlone(a, dtv, field, k, series) ==
    IF k >= a.num_steps
    THEN [kind |-> "result", value |-> Result(a, dtv, series)]
    ELSE IF NoCell(a) THEN [kind |-> "error", exc |-> "IndexError"]
    ELSE IF a.output_interval = 0
    THEN [kind |-> "error", exc |-> "ZeroDivisionError"]
    ELSE LET unew == Advance(a, dtv, field)
         IN  LoopAlone(a, dtv, unew, k + 1,
                       IF PyMod(k + 1, a.output_interval) = 0
                       THEN Append(Kept(series, a, unew),
                                   Snapshot(a, k + 1, unew))
                       ELSE Kept(series, a, unew))

RunAlone(a) ==
    IF EntryError(a) # None THEN [kind |-> "error", exc |-> EntryError(a)]
    ELSE LoopAlone(a, Dt(a), InitialField(a), 0,
                   <<Snapshot(a, 0, InitialField(a))>>)

(***************************************************************************)
(* Claims.                                                                 *)
(***************************************************************************)
Returned(r) == outcome[r].kind = "result"
Failed(r) == outcome[r].kind = "error"
SeriesOf(r) == outcome[r].value.series

\* C1: for both engines, whenever a call with num_steps >= 1 and
\* output_interval >= 1 returns, the returned series holds exactly
\* floor(num_steps / output_interval) + 1 snapshots.
C1_SnapshotCount ==
    \A r \in Reqs :
        (Returned(r) /\ args[r].num_steps >= 1 /\ args[r].output_interval >= 1)
        => Len(SeriesOf(r)) = (args[r].num_steps \div args[r].output_interval) + 1

\* a 1-D call of 3 steps sampled every 2 returned 2 snapshots
C1_Witness ==
    \E r \in Reqs :
        /\ Returned(r) /\ args[r].kind = "1d"
        /\ args[r].num_steps = 3 /\ args[r].output_interval = 2
        /\ Len(SeriesOf(r)) = 2

\* C2: for both engines with output_interval = k >= 1, the step indices of
\* the returned series are 0, k, 2k, ..., k * floor(num_steps / k), in this
\* order; no snapshot has step num_steps unless num_steps is a multiple of k.
C2_StepIndices ==
    \A r \in Reqs :
        (Returned(r) /\ args[r].output_interval >= 1)
        => LET k == args[r].output_interval
               series == SeriesOf(r)
           IN  /\ Len(series) = (args[r].num_steps \div k) + 1
               /\ \A i \in 1..Len(series) : series[i].step = (i - 1) * k
               /\ (args[r].num_steps % k # 0
                   => \A i \in 1..Len(series) :
                         series[i].step # args[r].num_steps)

\* a 2-D call of 3 steps sampled every 2 returned the steps 0 and 2
C2_Witness ==
    \E r \in Reqs :
        /\ Returned(r) /\ args[r].kind = "2d"
        /\ args[r].num_steps = 3 /\ args[r].output_interval = 2
        /\ Len(SeriesOf(r)) = 2
        /\ SeriesOf(r)[1].step = 0 /\ SeriesOf(r)[2].step = 2

\* field f is non-zero at cell i and nowhere else
OnlyAt(f, i) == f[i] # CZero /\ \A j \in 1..Len(f) : j # i => f[j] = CZero

\* the consecutive samples <<before, after>> of r's 1-D run, taken one step apart
OneStepPairs(r) ==
    IF args[r].kind = "1d" /\ args[r].output_interval = 1
    THEN {<<results[r][i].u, results[r][i + 1].u>> :
             i \in 1..(Len(results[r]) - 1)}
    ELSE {}

\* C3 as stated: for every c >= 0 (c = 0 included) a field that is non-zero
\* only at index n-1 makes index 0 non-zero after one step, and for c < 0 a
\* field that is non-zero only at index 0 makes index n-1 non-zero.
C3_Original ==
    \A r \in Reqs : invoked[r] =>
        \A p \in OneStepPairs(r) :
            LET nx == Len(p[1])
            IN  /\ (RLeq(Zero, args[r].c) /\ OnlyAt(p[1], nx))
                   => p[2][1] # CZero
                /\ (RLess(args[r].c, Zero) /\ OnlyAt(p[1], 1))
                   => p[2][nx] # CZero

\* C3 (amended): in the 1-D stepper the upstream neighbour wraps: with
\* K = c*dt/dx, for c >= 0 the new value at index 0 is
\* u[0] - K*(u[0] - u[n-1]) and for c < 0 the new value at index n-1 is
\* u[n-1] - K*(u[0] - u[n-1]); a field that is non-zero only at index n-1
\* makes index 0 non-zero after one step when c > 0, and a field that is
\* non-zero only at index 0 makes index n-1 non-zero when c < 0; for c = 0
\* index 0 keeps its value.
C3_PeriodicWrap ==
    \A r \in Reqs : invoked[r] =>
        \A p \in OneStepPairs(r) :
            LET nx == Len(p[1])
                c == args[r].c
                K == Courant(c, dt[r], Spacing(nx))
            IN  /\ RLeq(Zero, c)
                   => p[2][1] = CSub(p[1][1], CScale(K, CSub(p[1][1], p[1][nx])))
                /\ RLess(c, Zero)
                   => p[2][nx] = CSub(p[1][nx], CScale(K, CSub(p[1][1], p[1][nx])))
                /\ (RLess(Zero, c) /\ OnlyAt(p[1], nx)) => p[2][1] # CZero
                /\ (RLess(c, Zero) /\ OnlyAt(p[1], 1)) => p[2][nx] # CZero
                /\ c = Zero => p[2][1] = p[1][1]

\* with c > 0 a field that was non-zero only at its last index has been
\* stepped once and index 0 is now non-zero
C3_Witness ==
    \E p \in OneStepPairs(1) :
        /\ RLess(Zero, args[1].c)
        /\ Len(p[1]) = 3
        /\ OnlyAt(p[1], 3)
        /\ p[2][1] # CZero

\* the 2-D run of r has neither advection nor diffusion
Still2D(r) ==
    /\ args[r].kind = "2d"
    /\ args[r].cx = Zero /\ args[r].cy = Zero /\ args[r].diffusion = Zero

\* C4: in the 2-D engine with cx = 0, cy = 0 and diffusion = 0, for any grid
\* size, num_steps and output_interval, every snapshot's field equals the
\* step-0 field, during the run and in the returned Result.
C4_StillField ==
    \A r \in Reqs : (invoked[r] /\ Still2D(r)) =>
        /\ \A i \in 1..Len(results[r]) : results[r][i].u = results[r][1].u
        /\ Returned(r) =>
              \A i \in 1..Len(SeriesOf(r)) : SeriesOf(r)[i].u = SeriesOf(r)[1].u

\* scenario B: the route returned 4 snapshots of a 5 x 5 field that is
\* non-zero in every cell
C4_Witness ==
    \E r \in Reqs :
        /\ invoked[r] /\ Still2D(r) /\ Returned(r)
        /\ args[r].nx = 5 /\ args[r].ny = 5
        /\ args[r].num_steps = 3 /\ args[r].output_interval = 1
        /\ Len(SeriesOf(r)) = 4
        /\ Len(SeriesOf(r)[4].u) = 25
        /\ \A i \in 1..25 : SeriesOf(r)[4].u[i] # CZero

\* the grid of r's call has a cell count below 2
SmallGrid(r) ==
    args[r].nx < 2 \/ (args[r].kind = "2d" /\ args[r].ny < 2)

\* C5: an engine called with a cell count below 2 fails and returns no
\* Result, whatever the other parameters are.
C5_EngineRejectsSmallGrid ==
    \A r \in Reqs :
        (invoked[r] /\ SmallGrid(r)) => (~Returned(r) /\ (pc[r] = "done" => Failed(r)))

\* the ranges the routes enforce, as the claim gives them
InRange(a) ==
    IF a.kind = "1d"
    THEN a.nx \in 10..500 /\ a.num_steps \in 1..500
    ELSE a.nx \in 5..80 /\ a.ny \in 5..80 /\ a.num_steps \in 1..200

\* C6: a request to a route is answered 400, without the engine being
\* invoked, when its grid size or step count is out of range (1-D: nx in
\* 10..500, num_steps in 1..500; 2-D: nx, ny in 5..80, num_steps in 1..200),
\* and the engine is invoked only when all of them are in range.
C6_RouteValidates ==
    \A r \in Reqs : via[r] = "route" =>
        /\ invoked[r] <=> InRange(args[r])
        /\ response[r].status = 400 <=> ~InRange(args[r])
        /\ response[r].status = 400 => (pc[r] = "done" /\ ~Returned(r) /\ ~Failed(r))

\* a 1-D request with a valid grid and num_steps = 0 was answered 400 and
\* the engine was not invoked
C6_Witness ==
    \E r \in Reqs :
        /\ via[r] = "route" /\ args[r].kind = "1d"
        /\ args[r].nx = 10 /\ args[r].num_steps = 0
        /\ response[r].status = 400 /\ ~invoked[r]

\* C7: whenever a route invokes an engine the output_interval it passes is
\* >= 1; a request with output_interval < 1 never reaches the engine.
C7_IntervalValidated ==
    \A r \in Reqs :
        (via[r] = "route" /\ invoked[r]) => args[r].output_interval >= 1

\* C8: no partial results on failure: when the engine call of a route fails
\* the response is 500 without a body; a body is sent only with status 200,
\* only after all num_steps steps have been made, and it is the complete
\* Result.
C8_NoPartialResults ==
    \A r \in Reqs : via[r] = "route" =>
        /\ Failed(r) => (response[r].status = 500 /\ response[r].body = None)
        /\ response[r].status # 200 => response[r].body = None
        /\ response[r].status = 200 =>
              /\ Returned(r)
              /\ n[r] = args[r].num_steps
              /\ response[r].body = outcome[r].value
              /\ response[r].body.series = results[r]

\* a route's engine call raised at step 1, after the step-0 snapshot had
\* been taken, and the response is 500
C8_Witness ==
    \E r \in Reqs :
        /\ via[r] = "route" /\ Failed(r)
        /\ n[r] = 1 /\ Len(results[r]) = 1
        /\ args[r].num_steps > 1
        /\ response[r].status = 500

\* C9: when requests are handled concurrently, in any interleaving, every
\* engine call ends as the same call run alone does (same Result, or same
\* exception), and a step of one handler leaves the engine locals and the
\* outcome of every other handler as they were.
C9_NoSharedState ==
    [][\A r \in Reqs :
          /\ (pc[r] # "done" /\ pc'[r] = "done" /\ invoked'[r])
             => outcome'[r] = RunAlone(args'[r])
          /\ (pc'[r] = pc[r] /\ n'[r] = n[r])
             => /\ dt'[r] = dt[r] /\ u'[r] = u[r]
                /\ results'[r] = results[r]
                /\ outcome'[r] = outcome[r]]_vars

\* request 1 has returned a Result of several steps while request 2, with
\* other parameters, is in the middle of its loop
C9_Witness ==
    /\ Returned(1) /\ args[1].num_steps >= 2
    /\ pc[2] = "loop" /\ n[2] >= 1 /\ n[2] < args[2].num_steps
    /\ args[2].kind # args[1].kind

\* C10: two runs of the same engine with identical parameters end alike:
\* same Result (dt, step indices, field values of every snapshot) or same
\* exception, and the same response.
C10_Determinism ==
    \A r1 \in Reqs, r2 \in Reqs :
        (/\ pc[r1] = "done" /\ pc[r2] = "done"
         /\ args[r1].kind = args[r2].kind
         /\ args[r1] = args[r2])
        => (outcome[r1] = outcome[r2] /\ response[r1] = response[r2])

\* two requests with the same parameters have both returned a Result with
\* more than one snapshot
C10_Witness ==
    /\ Returned(1) /\ Returned(2)
    /\ args[1] = args[2]
    /\ Len(SeriesOf(1)) >= 3
    /\ SeriesOf(1)[3].u # SeriesOf(1)[1].u

\* the call of r got past the statements before the loop
Entered(r) == invoked[r] /\ EntryError(args[r]) = None

\* the number of cells of the grid of r's call
Cells(r) ==
    IF args[r].kind = "1d" THEN args[r].nx ELSE args[r].nx * args[r].ny

\* C11: in every snapshot of a run, step 0 included, the field has exactly
\* nx values (1-D) or nx*ny values (2-D), during the run and in the returned
\* Result, and the working field keeps the shape of the grid at every step.
C11_Shape ==
    \A r \in Reqs : Entered(r) =>
        /\ \A i \in 1..Len(results[r]) : Len(results[r][i].u) = Cells(r)
        /\ Returned(r) =>
              \A i \in 1..Len(SeriesOf(r)) : Len(SeriesOf(r)[i].u) = Cells(r)
        /\ IF args[r].kind = "1d" THEN Len(u[r]) = args[r].nx
           ELSE /\ Len(u[r]) = args[r].ny
                /\ \A k \in 1..Len(u[r]) : Len(u[r][k]) = args[r].nx

\* a 2-D run on a 9 x 5 grid returned 4 snapshots of 45 values each
C11_Witness ==
    \E r \in Reqs :
        /\ Returned(r) /\ args[r].kind = "2d"
        /\ args[r].nx = 9 /\ args[r].ny = 5
        /\ Len(SeriesOf(r)) = 4
        /\ \A i \in 1..4 : Len(SeriesOf(r)[i].u) = 45

\* the 2-D call of r has entered its loop on a grid with cells
Running2D(r) == Entered(r) /\ args[r].kind = "2d" /\ ~NoCell(args[r])

\* the first step of a 2-D run composed sequentially
FirstStepSequential(r) ==
    Step2DSequential(InitialField(args[r]), args[r].cx, args[r].cy,
                     args[r].diffusion, Dt(args[r]),
                     Spacing(args[r].nx), Spacing(args[r].ny))

\* C12 as stated: within one 2-D step the passes are composed sequentially,
\* so the field after the first step is the diffusion pass applied to the
\* y-advection pass applied to the x-advection pass of the initial field.
C12_Original ==
    \A r \in Reqs :
        (Running2D(r) /\ n[r] = 1) => u[r] = FirstStepSequential(r)

\* C12: within one 2-D step every pass computes its differences from the
\* field before the step and accumulates into the copy: each cell of the new
\* field is the old cell minus the x-advection term minus the y-advection
\* term plus the diffusion term, all three taken on the pre-step field.
C12_FrozenField ==
    [][\A r \in Reqs :
          (Running2D(r) /\ pc[r] = "loop" /\ n'[r] = n[r] + 1) =>
             \A i \in 1..args[r].ny : \A j \in 1..args[r].nx :
                u'[r][i][j] =
                   CAdd(CSub(CSub(u[r][i][j],
                                  AdvectX(u[r], args[r].cx, dt[r],
                                          Spacing(args[r].nx), i, j)),
                             AdvectY(u[r], args[r].cy, dt[r],
                                     Spacing(args[r].ny), i, j)),
                        Diffuse(u[r], args[r].diffusion, dt[r],
                                Spacing(args[r].nx), Spacing(args[r].ny),
                                i, j))]_vars

\* a 2-D run with flow in both directions has taken its first step, and the
\* field differs from the sequentially composed one
C12_Witness ==
    \E r \in Reqs :
        /\ Running2D(r) /\ n[r] = 1
        /\ args[r].cx # Zero /\ args[r].cy # Zero
        /\ u[r] # InitialField(args[r])
        /\ u[r] # FirstStepSequential(r)

\* the 1-D call of r has entered its loop on a grid with cells
Running1D(r) == Entered(r) /\ args[r].kind = "1d" /\ ~NoCell(args[r])

\* sign(c) as an integer
Sgn(c) == IF c = Zero THEN 0 ELSE IF RLess(Zero, c) THEN 1 ELSE -1

\* field f is field f0 shifted cyclically by k cells towards higher indices
ShiftOf(f, f0, k) ==
    /\ Len(f) = Len(f0)
    /\ \A j \in 0..(Len(f0) - 1) : f[j + 1] = f0[PyMod(j - k, Len(f0)) + 1]

\* C13: in the 1-D engine c*dt/dx is exactly sign(c), every snapshot of
\* step k and the working field after n steps are the initial field shifted
\* cyclically by k*sign(c) (n*sign(c)) cells; for c = 0 every snapshot is the
\* initial field, and for c # 0 the field is the initial one after nx steps.
C13_CyclicShift ==
    \A r \in Reqs : Running1D(r) =>
        LET a  == args[r]
            s  == Sgn(a.c)
            u0 == results[r][1].u
        IN  /\ Courant(a.c, dt[r], Spacing(a.nx)) = Rat(s)
            /\ \A i \in 1..Len(results[r]) :
                  /\ ShiftOf(results[r][i].u, u0, results[r][i].step * s)
                  /\ a.c = Zero => results[r][i].u = u0
            /\ ShiftOf(u[r], u0, n[r] * s)
            /\ (a.c # Zero /\ n[r] = a.nx) => u[r] = u0

\* a run with c = 1 on 3 cells has taken 3 steps: the first step moved the
\* field and the third brought the initial field back
C13_Witness ==
    /\ Running1D(1) /\ args[1].c = One /\ args[1].nx = 3
    /\ n[1] = 3 /\ Len(results[1]) = 4
    /\ results[1][2].u # results[1][1].u
    /\ results[1][4].u = results[1][1].u
    /\ results[1][2].u[2] = results[1][1].u[1]

\* cell (i, j) lies in the first or last row or column of r's grid
Edge(r, i, j) ==
    i = 1 \/ i = args[r].ny \/ j = 1 \/ j = args[r].nx

\* the 2-D run of r has diffusion only
DiffusionOnly(r) ==
    /\ args[r].kind = "2d"
    /\ args[r].cx = Zero /\ args[r].cy = Zero
    /\ RLess(Zero, args[r].diffusion)

\* position of cell (i, j) in a flattened field of r's grid
Flat(r, i, j) == (i - 1) * args[r].nx + j

\* C14: a 2-D step gives every cell of the first or last row or column the
\* advective update only (no diffusion term, no wrap of the Laplacian), so
\* with cx = cy = 0 and diffusion > 0 every edge cell of the working field
\* and of every snapshot keeps its initial value at every step.
C14_EdgesUndiffused ==
    [][\A r \in Reqs :
          (Running2D(r) /\ pc[r] = "loop" /\ n'[r] = n[r] + 1) =>
             \A i \in 1..args[r].ny : \A j \in 1..args[r].nx :
                Edge(r, i, j) =>
                   /\ u'[r][i][j] =
                         CSub(CSub(u[r][i][j],
                                   AdvectX(u[r], args[r].cx, dt[r],
                                           Spacing(args[r].nx), i, j)),
                              AdvectY(u[r], args[r].cy, dt[r],
                                      Spacing(args[r].ny), i, j))
                   /\ DiffusionOnly(r) =>
                         /\ u'[r][i][j] = InitialField(args[r])[i][j]
                         /\ \A k \in 1..Len(results'[r]) :
                               results'[r][k].u[Flat(r, i, j)] =
                                  InitialField(args[r])[i][j]]_vars

\* a diffusion-only run on a 5 x 5 grid has taken 3 steps: an interior cell
\* has changed and every edge cell holds its initial value, which is not
\* zero
C14_Witness ==
    \E r \in Reqs :
        /\ Running2D(r) /\ DiffusionOnly(r)
        /\ args[r].nx = 5 /\ args[r].ny = 5 /\ n[r] = 3
        /\ Len(results[r]) = 4
        /\ \E i \in 2..4 : \E j \in 2..4 :
              results[r][4].u[Flat(r, i, j)] # results[r][1].u[Flat(r, i, j)]
        /\ \A i \in 1..5 : \A j \in 1..5 :
              Edge(r, i, j) =>
                 results[r][4].u[Flat(r, i, j)] = results[r][1].u[Flat(r, i, j)]
        /\ \A i \in 1..5 : \A j \in 1..5 :
              Edge(r, i, j) => results[r][1].u[Flat(r, i, j)] # CZero

\* the total of the cells lo..hi of a sequence, by halves
RECURSIVE CSumRange(_, _, _)
CSumRange(f, lo, hi) ==
    IF lo > hi THEN CZero
    ELSE IF lo = hi THEN f[lo]
    ELSE LET mid == (lo + hi) \div 2
         IN  CAdd(CSumRange(f, lo, mid), CSumRange(f, mid + 1, hi))

\* the total of a sequence of cells
CSum(f) == CSumRange(f, 1, Len(f))

\* the total of a 2-D field over all its cells, row by row
Mass(field) == CSum([i \in 1..Len(field) |-> CSum(field[i])])

\* the 2-D run of r has no diffusion
AdvectionOnly(r) == args[r].kind = "2d" /\ args[r].diffusion = Zero

\* C15: in the 2-D engine with diffusion = 0, for any cx and cy, the total
\* of the field over all cells after a step equals the total before the step
\* (exact arithmetic), so every snapshot has the total of the initial field.
C15_MassConserved ==
    [][\A r \in Reqs :
          (Running2D(r) /\ AdvectionOnly(r)
             /\ pc[r] = "loop" /\ n'[r] = n[r] + 1) =>
             /\ Mass(u'[r]) = Mass(u[r])
             /\ \A k \in 1..Len(results'[r]) :
                   CSum(results'[r][k].u) = Mass(InitialField(args[r]))]_vars

\* an advection-only run with flow along x and y has taken 2 steps: the
\* field has changed and its total, which is not zero, has not
C15_Witness ==
    \E r \in Reqs :
        /\ Running2D(r) /\ AdvectionOnly(r)
        /\ args[r].cx # Zero /\ args[r].cy # Zero
        /\ n[r] = 2 /\ Len(results[r]) = 3
        /\ results[r][3].u # results[r][1].u
        /\ results[r][3].u # results[r][2].u
        /\ CSum(results[r][3].u) = CSum(results[r][1].u)
        /\ CSum(results[r][1].u) # CZero

\* C16: snapshots are copies that later steps never alter: every transition
\* of a run keeps the snapshots stored so far as they are, a snapshot is
\* appended holding the step index and the field as they are right after
\* that step, and the returned Result carries exactly the stored snapshots.
C16_SnapshotsKept ==
    [][\A r \in Reqs :
          /\ Len(results'[r]) >= Len(results[r])
          /\ \A i \in 1..Len(results[r]) : results'[r][i] = results[r][i]
          /\ Len(results'[r]) > Len(results[r]) =>
                /\ Len(results'[r]) = Len(results[r]) + 1
                /\ results'[r][Len(results'[r])] =
                      Snapshot(args'[r], n'[r], u'[r])
          /\ (outcome'[r].kind = "result") =>
                outcome'[r].value.series = results'[r]]_vars

\* a run of 3 steps sampled at every step has returned: the snapshots of
\* steps 1, 2 and 3 differ from one another although the working field went
\* on to step 3
C16_Witness ==
    \E r \in Reqs :
        /\ Returned(r) /\ n[r] = 3 /\ Len(SeriesOf(r)) = 4
        /\ SeriesOf(r)[2].u # SeriesOf(r)[3].u
        /\ SeriesOf(r)[3].u # SeriesOf(r)[4].u
        /\ SeriesOf(r)[2].u # SeriesOf(r)[4].u
        /\ SeriesOf(r)[4].u = Snapshot(args[r], 3, u[r]).u

\* the number of passes range(1, num_steps + 1) makes
Passes(a) == IF a.num_steps > 0 THEN a.num_steps ELSE 0

\* C17: a run follows Initialized -> Stepping -> Complete: the counter never
\* leaves 0..num_steps, dt stays the value computed before the loop, and a
\* run that has ended has made exactly num_steps passes and returned its
\* Result.
C17_RunCompletes ==
    \A r \in Reqs : Entered(r) =>
        /\ n[r] \in 0..Passes(args[r])
        /\ dt[r] = Dt(args[r])
        /\ pc[r] = "done" => (Returned(r) /\ n[r] = Passes(args[r]))

\* the diffusion number D * dt / (dx * dy) of r's 2-D call
DiffusionNumber(r) ==
    RDiv(RMul(args[r].diffusion, dt[r]),
         RMul(Spacing(args[r].nx), Spacing(args[r].ny)))

\* C18: for nx, ny >= 2, any cx, cy and diffusion >= 0 the 2-D time step
\* satisfies 0 < dt <= 0.002, |cx|*dt/dx <= 1, |cy|*dt/dy <= 1 and
\* diffusion*dt/(dx*dy) <= 1/4.
C18_StableStep ==
    \A r \in Reqs :
        (/\ Entered(r) /\ args[r].kind = "2d"
         /\ args[r].nx >= 2 /\ args[r].ny >= 2
         /\ RLeq(Zero, args[r].diffusion)) =>
            /\ RLess(Zero, dt[r])
            /\ RLeq(dt[r], DtCeiling)
            /\ RLeq(RAbs(Courant(args[r].cx, dt[r], Spacing(args[r].nx))), One)
            /\ RLeq(RAbs(Courant(args[r].cy, dt[r], Spacing(args[r].ny))), One)
            /\ RLeq(DiffusionNumber(r), <<1, 4>>)

\* a call on a 4 x 3 grid with cx = 1/2 and diffusion 1000 has returned: the
\* diffusive limit is the one that binds, dt is below the ceiling and the
\* diffusion number is below 1/4 because dx # dy
C18_Witness ==
    \E r \in Reqs :
        /\ Returned(r) /\ args[r].kind = "2d"
        /\ args[r].nx = 4 /\ args[r].ny = 3
        /\ args[r].cx = <<1, 2>> /\ args[r].diffusion = Rat(1000)
        /\ RLess(dt[r], DtCeiling)
        /\ RLess(dt[r], DtAdv(args[r].cx, args[r].cy,
                              Spacing(args[r].nx), Spacing(args[r].ny)))
        /\ RLess(Zero, DiffusionNumber(r))
        /\ RLess(DiffusionNumber(r), <<1, 4>>)

\* what get(key) has to return now: the value of the latest set of key if
\* the clock has not passed that set's time plus the TTL, else None
Fresh(key) ==
    IF lastSet[key].written /\ now <= lastSet[key].at + CacheTtl
    THEN lastSet[key].value
    ELSE None

\* C19: TTLCache never serves an expired entry: get(key) returns the value
\* of the most recent set(key, v) if the clock has not passed that set's
\* time plus the TTL and None otherwise; a get that finds the entry expired
\* removes it from the store, any other get leaves the store unchanged, and
\* a set replaces the value and restarts the key's expiry.
C19_NeverServesExpired ==
    [][/\ last'.op = "get" =>
             /\ last'.ret = Fresh(last'.key)
             /\ IF last'.key \in DOMAIN store
                   /\ now > lastSet[last'.key].at + CacheTtl
                THEN store' = Without(store, last'.key)
                ELSE store' = store
       /\ last'.op = "set" =>
             /\ last'.key \in DOMAIN store'
             /\ store'[last'.key].value = lastSet'[last'.key].value
             /\ store'[last'.key].expires = now + CacheTtl
             /\ \A k \in Keys \ {last'.key} :
                   /\ k \in DOMAIN store' <=> k \in DOMAIN store
                   /\ k \in DOMAIN store => store'[k] = store[k]]_vars

\* k1 was set to "a" at time 0 and then to "b" at time 150; at time 450, the
\* second set's expiry time and past the first one's, get("k1") has just
\* returned "b" and the entry is still stored
C19_Witness ==
    /\ now = 450
    /\ lastSet["k1"] = [written |-> TRUE, value |-> "b", at |-> 150]
    /\ last = [op |-> "get", key |-> "k1", ret |-> "b"]
    /\ "k1" \in DOMAIN store
    /\ "k2" \notin DOMAIN store /\ lastSet["k2"].written
====
